---- MODULE Spec2Model ----
(***************************************************************************)
(* Model of src/Architecture/DoorItInterior/script.py: the controller that *)
(* resolves labelled sockets of a Geometry Nodes interface tree, caches    *)
(* the resolution and writes validated values into the modifier's          *)
(* key-value store, the batch operation built on it, and create_door,     *)
(* which links or creates the object the batch is applied to.              *)
(*                                                                         *)
(* Numbers are kept in tenths (the float 1.0 is One = 10, 0.3 is 3), so    *)
(* that int() truncation and the half-open interval of random.random()     *)
(* are visible.  An integer n is the multiple n * One.                     *)
(***************************************************************************)
EXTENDS Integers, Sequences, FiniteSets, TLC

\* The float 1.0 (the alpha appended to an RGB colour), in tenths.
One == 10

\* Bounds of the model.
MaxCalls == 2
MaxBatch == 1
MaxPick == 4
MaxCreate == 1

(***************************************************************************)
(* Python values.  k is the dynamic type: "num" a finite int or float,     *)
(* "nan" float('nan'), "str" a non-numeric object, "none" None, "tuple" a  *)
(* sequence whose components are c.                                        *)
(***************************************************************************)
Num(n) == [k |-> "num", v |-> n, c |-> <<>>]
NaN == [k |-> "nan", v |-> 0, c |-> <<>>]
Str == [k |-> "str", v |-> 0, c |-> <<>>]
None == [k |-> "none", v |-> 0, c |-> <<>>]
Tup(s) == [k |-> "tuple", v |-> 0, c |-> s]

IsNum(x) == x.k = "num"

\* Python's a > b on floats: false whenever either side is NaN.
Gt(a, b) == a.k = "num" /\ b.k = "num" /\ a.v > b.v

\* Python's max(a, b) and min(a, b): the first argument is kept unless the
\* second compares strictly greater (smaller).
PyMax(a, b) == IF Gt(b, a) THEN b ELSE a
PyMin(a, b) == IF Gt(a, b) THEN b ELSE a

\* float(x): the identity on numbers and NaN, a TypeError/ValueError otherwise.
FloatOf(x) ==
    IF x.k \in {"num", "nan"} THEN [err |-> "", val |-> x]
    ELSE [err |-> "CoercionError", val |-> None]

\* Truncation toward zero of a number in tenths, to a whole number in tenths.
Trunc(n) == IF n >= 0 THEN (n \div One) * One ELSE -(((-n) \div One) * One)

\* int(x): truncation toward zero; NaN and non-numbers raise.
IntOf(x) ==
    IF x.k = "num" THEN [err |-> "", val |-> Num(Trunc(x.v))]
    ELSE [err |-> "CoercionError", val |-> None]

(***************************************************************************)
(* The interface tree.  A tree is an arena of nodes and the sequence of    *)
(* its top-level items; kids is a node's items_tree.  hasId is             *)
(* hasattr(item, "identifier"); hasMin / hasMax say whether the item has   *)
(* a min_value / max_value attribute.                                      *)
(***************************************************************************)
Slot(name, id, hasMin, min, hasMax, max) ==
    [name |-> name, hasId |-> TRUE, id |-> id, hasMin |-> hasMin, min |-> min,
     hasMax |-> hasMax, max |-> max, kids |-> <<>>]

Panel(name, kids) ==
    [name |-> name, hasId |-> FALSE, id |-> "", hasMin |-> FALSE, min |-> 0,
     hasMax |-> FALSE, max |-> 0, kids |-> kids]

Ids == {"Socket_1", "Socket_2", "Socket_3", "Socket_4", "Socket_5"}

Labels == {"Width", "Height", "Type", "Paint Color", "Depth", "Style"}

\* Every socket at top level, every bound declared.
TreeFlat ==
    [roots |-> <<1, 2, 3, 4>>,
     nodes |-> << Slot("Width", "Socket_1", TRUE, 3, TRUE, 30),
                  Slot("Height", "Socket_2", TRUE, 5, TRUE, 40),
                  Slot("Type", "Socket_3", TRUE, 0, TRUE, 40),
                  Slot("Paint Color", "Socket_4", FALSE, 0, FALSE, 0) >>]

\* Sockets nested in panels, a panel that carries a socket's label, and a
\* second socket labelled "Width" later in the traversal.
TreeNested ==
    [roots |-> <<1, 4, 7>>,
     nodes |-> << Panel("Dimensions", <<2, 3>>),
                  Slot("Width", "Socket_1", TRUE, 3, TRUE, 30),
                  Slot("Height", "Socket_2", TRUE, 5, TRUE, 40),
                  Panel("Style", <<5>>),
                  Panel("Paint Color", <<6, 8>>),
                  Slot("Paint Color", "Socket_4", FALSE, 0, FALSE, 0),
                  Slot("Width", "Socket_5", TRUE, 0, TRUE, 10),
                  Slot("Type", "Socket_3", TRUE, -10, TRUE, 20) >>]

\* Only the width socket exists; it declares no bound.
TreeSparse ==
    [roots |-> <<1>>,
     nodes |-> << Panel("Style", <<2>>),
                  Slot("Width", "Socket_1", FALSE, 0, FALSE, 0) >>]

\* The type socket with chosen bounds; width declares a minimum only and
\* height a maximum only.
TreeType(hasMin, min, hasMax, max) ==
    [roots |-> <<1, 2, 3, 4>>,
     nodes |-> << Slot("Width", "Socket_1", TRUE, 3, FALSE, 0),
                  Slot("Height", "Socket_2", FALSE, 0, TRUE, 40),
                  Slot("Type", "Socket_3", hasMin, min, hasMax, max),
                  Slot("Paint Color", "Socket_4", FALSE, 0, FALSE, 0) >>]

Trees ==
    {TreeFlat, TreeNested, TreeSparse,
     TreeType(FALSE, 0, FALSE, 0),
     TreeType(TRUE, 10, FALSE, 0),
     TreeType(FALSE, 0, TRUE, 20),
     TreeType(FALSE, 0, TRUE, -10)}

(***************************************************************************)
(* State.                                                                  *)
(*   tree       the interface of the modifier's node group (never changes) *)
(*   cache      the controller's _socket_cache: label -> node              *)
(*   sink       the modifier's key-value store: identifier -> value        *)
(*   traversals per label, how often the controller walked the tree        *)
(*   calls      number of controller operations performed so far           *)
(*   last       what the most recent operation was given, did and returned *)
(*   world      the blend file and scene create_door works on: whether the  *)
(*              object of the requested name exists and is in the scene,   *)
(*              where it is, and where the 3D cursor is                     *)
(*   made       what the most recent create_door was given, did, returned  *)
(***************************************************************************)
VARIABLES tree, cache, sink, traversals, calls, last, world, made

vars == <<tree, cache, sink, traversals, calls, last, world, made>>

\* _iter_interface_items: every item, each followed by the items nested in it.
RECURSIVE IterItems(_, _)
IterItems(t, items) ==
    IF items = <<>> THEN <<>>
    ELSE LET item == Head(items)
             children == t.nodes[item].kids
         IN  <<item>>
             \o (IF children # <<>> THEN IterItems(t, children) ELSE <<>>)
             \o IterItems(t, Tail(items))

\* Variant of the test that looks at the name only.
MatchesAnyNamed(t, i, label) == t.nodes[i].name = label

\* The test of the lookup loop: the name is the label and the item has an
\* identifier attribute.
Matches(t, i, label) == t.nodes[i].name = label /\ t.nodes[i].hasId

\* The first item of the traversal that matches, 0 when none does.
FirstMatch(t, label) ==
    LET order == IterItems(t, t.roots)
        hits == {n \in 1..Len(order) : Matches(t, order[n], label)}
    IN  IF hits = {} THEN 0
        ELSE order[CHOOSE n \in hits : \A m \in hits : n <= m]

\* A controller's mutable state while one operation runs: its cache, the
\* store it writes to, the traversal counts, the writes made so far and the
\* calls made to the random module so far.
CtlState(c, s, tr) ==
    [cache |-> c, sink |-> s, trav |-> tr, log |-> <<>>, draws |-> <<>>]

\* A call of random.randint or random.random.
Draw(st, fn) == [st EXCEPT !.draws = Append(@, fn)]

\* self.modifier[identifier] = value
Write(st, id, val) ==
    [st EXCEPT !.sink[id] = val, !.log = Append(@, [id |-> id, val |-> val])]

\* Variant of the lookup that never stores what it found.
GetInterfaceItemUncached(t, st, label) ==
    IF label \in DOMAIN st.cache
    THEN [err |-> "", item |-> st.cache[label], hit |-> TRUE, st |-> st]
    ELSE LET found == FirstMatch(t, label)
             walked == [st EXCEPT !.trav[label] = @ + 1]
         IN  IF found # 0
             THEN [err |-> "", item |-> found, hit |-> FALSE, st |-> walked]
             ELSE [err |-> "KeyError", item |-> 0, hit |-> FALSE, st |-> walked]

\* Variant of the lookup that empties the cache when the label is not found.
GetInterfaceItemClearsOnMiss(t, st, label) ==
    IF label \in DOMAIN st.cache
    THEN [err |-> "", item |-> st.cache[label], hit |-> TRUE, st |-> st]
    ELSE LET found == FirstMatch(t, label)
             walked == [st EXCEPT !.trav[label] = @ + 1]
         IN  IF found # 0
             THEN [err |-> "", item |-> found, hit |-> FALSE,
                   st |-> [walked EXCEPT !.cache = (label :> found) @@ @]]
             ELSE [err |-> "KeyError", item |-> 0, hit |-> FALSE,
                   st |-> [walked EXCEPT !.cache = <<>>]]

\* _get_interface_item: the cached item, else the first match of a traversal
\* (cached on the way out), else KeyError.
GetInterfaceItem(t, st, label) ==
    IF label \in DOMAIN st.cache
    THEN [err |-> "", item |-> st.cache[label], hit |-> TRUE, st |-> st]
    ELSE LET found == FirstMatch(t, label)
             walked == [st EXCEPT !.trav[label] = @ + 1]
         IN  IF found # 0
             THEN [err |-> "", item |-> found, hit |-> FALSE,
                   st |-> [walked EXCEPT !.cache = (label :> found) @@ @]]
             ELSE [err |-> "KeyError", item |-> 0, hit |-> FALSE, st |-> walked]

\* The result of an operation: the error raised ("" when it returned), the
\* value returned, the item it resolved and the controller state it left.
Raised(e, r, st) == [err |-> e, ret |-> None, item |-> r.item, hit |-> r.hit, st |-> st]
Returned(v, r, st) == [err |-> "", ret |-> v, item |-> r.item, hit |-> r.hit, st |-> st]

\* Variant of the clamp that forgets the upper bound.
ClampNumericNoMax(x, min_value, max_value) ==
    IF min_value.k # "none" THEN PyMax(x, FloatOf(min_value).val) ELSE x

\* The clamp of _set_numeric: each bound is applied only when it is not None.
ClampNumeric(x, min_value, max_value) ==
    LET lo == IF min_value.k # "none" THEN PyMax(x, FloatOf(min_value).val) ELSE x
    IN  IF max_value.k # "none" THEN PyMin(lo, FloatOf(max_value).val) ELSE lo

\* getattr(item, "min_value", default) and getattr(item, "max_value", default)
MinValue(t, i, default) == IF t.nodes[i].hasMin THEN Num(t.nodes[i].min) ELSE default
MaxValue(t, i, default) == IF t.nodes[i].hasMax THEN Num(t.nodes[i].max) ELSE default

\* Variant of _set_numeric that stores the requested value and returns the
\* clamped one.
SetNumericStoresRequest(t, st, label, value) ==
    LET r == GetInterfaceItem(t, st, label)
    IN  IF r.err # "" THEN Raised(r.err, r, r.st)
        ELSE LET f == FloatOf(value)
             IN  IF f.err # "" THEN Raised(f.err, r, r.st)
                 ELSE LET numeric_value ==
                              ClampNumeric(f.val, MinValue(t, r.item, None),
                                           MaxValue(t, r.item, None))
                      IN  Returned(numeric_value, r,
                                   Write(r.st, t.nodes[r.item].id, f.val))

\* _set_numeric(label, value)
SetNumeric(t, st, label, value) ==
    LET r == GetInterfaceItem(t, st, label)
    IN  IF r.err # "" THEN Raised(r.err, r, r.st)
        ELSE LET f == FloatOf(value)
             IN  IF f.err # "" THEN Raised(f.err, r, r.st)
                 ELSE LET numeric_value ==
                              ClampNumeric(f.val, MinValue(t, r.item, None),
                                           MaxValue(t, r.item, None))
                      IN  Returned(numeric_value, r,
                                   Write(r.st, t.nodes[r.item].id, numeric_value))

SetWidth(t, st, value) == SetNumeric(t, st, "Width", value)
SetHeight(t, st, value) == SetNumeric(t, st, "Height", value)

\* The clamp of set_type.
ClampInt(int_value, min_value, max_value) ==
    PyMax(min_value, PyMin(int_value, max_value))

\* set_type(value): an absent bound defaults to the coerced input.
SetType(t, st, value) ==
    LET r == GetInterfaceItem(t, st, "Type")
    IN  IF r.err # "" THEN Raised(r.err, r, r.st)
        ELSE LET i == IntOf(value)
             IN  IF i.err # "" THEN Raised(i.err, r, r.st)
                 ELSE LET min_value == IntOf(MinValue(t, r.item, i.val)).val
                          max_value == IntOf(MaxValue(t, r.item, i.val)).val
                          clamped_value == ClampInt(i.val, min_value, max_value)
                      IN  Returned(clamped_value, r,
                                   Write(r.st, t.nodes[r.item].id, clamped_value))

\* Variant of randint whose range runs one past b.
RandIntPastEnd(a, b, pick) ==
    IF a.v > b.v THEN [err |-> "RangeError", val |-> None]
    ELSE [err |-> "", val |-> Num(a.v + One * (pick % ((b.v - a.v) \div One + 2)))]

\* random.randint(a, b): some integer of a..b, chosen by pick; ValueError on
\* an empty range.
RandInt(a, b, pick) ==
    IF a.v > b.v THEN [err |-> "RangeError", val |-> None]
    ELSE [err |-> "", val |-> Num(a.v + One * (pick % ((b.v - a.v) \div One + 1)))]

\* Variant of randomize_type in which an absent maximum defaults to 1.
RandomizeTypeMaxOne(t, st, pick) ==
    LET r == GetInterfaceItem(t, st, "Type")
    IN  IF r.err # "" THEN Raised(r.err, r, r.st)
        ELSE LET min_value == IntOf(MinValue(t, r.item, Num(0))).val
                 max_value == IntOf(MaxValue(t, r.item, Num(One))).val
                 choice == RandInt(min_value, max_value, pick)
                 drawn == Draw(r.st, "randint")
             IN  IF choice.err # "" THEN Raised(choice.err, r, drawn)
                 ELSE Returned(choice.val, r,
                               Write(drawn, t.nodes[r.item].id, choice.val))

\* randomize_type(): min defaults to 0 and max to min.
RandomizeType(t, st, pick) ==
    LET r == GetInterfaceItem(t, st, "Type")
    IN  IF r.err # "" THEN Raised(r.err, r, r.st)
        ELSE LET min_value == IntOf(MinValue(t, r.item, Num(0))).val
                 max_value == IntOf(MaxValue(t, r.item, min_value)).val
                 choice == RandInt(min_value, max_value, pick)
                 drawn == Draw(r.st, "randint")
             IN  IF choice.err # "" THEN Raised(choice.err, r, drawn)
                 ELSE Returned(choice.val, r,
                               Write(drawn, t.nodes[r.item].id, choice.val))

\* tuple(float(c) for c in color[:4]): the first failing component raises.
FirstFour(s) == SubSeq(s, 1, IF Len(s) < 4 THEN Len(s) ELSE 4)

\* Variant of the coercion that also clamps every channel into [0, 1].
CoerceAllClamped(s) ==
    IF \E n \in 1..Len(s) : FloatOf(s[n]).err # ""
    THEN [err |-> "CoercionError", val |-> <<>>]
    ELSE [err |-> "", val |->
            [n \in 1..Len(s) |-> PyMin(PyMax(FloatOf(s[n]).val, Num(0)), Num(One))]]

CoerceAll(s) ==
    IF \E n \in 1..Len(s) : FloatOf(s[n]).err # ""
    THEN [err |-> "CoercionError", val |-> <<>>]
    ELSE [err |-> "", val |-> [n \in 1..Len(s) |-> FloatOf(s[n]).val]]

\* Variant of the arity test that accepts any sequence of at least 3.
ArityAtLeastThree(color) == Len(color.c) >= 3

\* The arity test of set_paint_color.
ArityOk(color) == Len(color.c) \in {3, 4}

\* Variant of set_paint_color that tests the arity before it looks the
\* socket up.
SetPaintColorArityFirst(t, st, color) ==
    IF ~(Len(color.c) \in {3, 4}) THEN Raised("ArityError", [item |-> 0, hit |-> FALSE], st)
    ELSE LET r == GetInterfaceItem(t, st, "Paint Color")
         IN  IF r.err # "" THEN Raised(r.err, r, r.st)
             ELSE LET co == CoerceAll(FirstFour(color.c))
                  IN  IF co.err # "" THEN Raised(co.err, r, r.st)
                      ELSE LET rgba == IF Len(co.val) = 3
                                       THEN Tup(Append(co.val, Num(One)))
                                       ELSE Tup(co.val)
                           IN  Returned(rgba, r, Write(r.st, t.nodes[r.item].id, rgba))

\* set_paint_color(color)
SetPaintColor(t, st, color) ==
    LET r == GetInterfaceItem(t, st, "Paint Color")
    IN  IF r.err # "" THEN Raised(r.err, r, r.st)
        ELSE IF ~ArityOk(color) THEN Raised("ArityError", r, r.st)
        ELSE LET co == CoerceAll(FirstFour(color.c))
             IN  IF co.err # "" THEN Raised(co.err, r, r.st)
                 ELSE LET rgba == IF Len(co.val) = 3
                                  THEN Tup(Append(co.val, Num(One)))
                                  ELSE Tup(co.val)
                      IN  Returned(rgba, r, Write(r.st, t.nodes[r.item].id, rgba))

\* randomize_paint_color(alpha): rgb are the three draws of random.random().
NoItem == [item |-> 0, hit |-> FALSE]

RandomizePaintColor(t, st, rgb, alpha) ==
    LET a == FloatOf(alpha)
        drawn == Draw(Draw(Draw(st, "random"), "random"), "random")
    IN  IF a.err # "" THEN Raised(a.err, NoItem, drawn)
        ELSE LET rgba == Tup(<<Num(rgb[1]), Num(rgb[2]), Num(rgb[3]), a.val>>)
                 w == SetPaintColor(t, drawn, rgba)
             IN  IF w.err # "" THEN w ELSE [w EXCEPT !.ret = rgba]

(***************************************************************************)
(* Arguments the operations are called with.                               *)
(***************************************************************************)
FloatInputs == {Num(-25), Num(3), Num(17), Num(30), Num(100), NaN, Str}

IntInputs == {Num(-25), Num(-20), Num(0), Num(27), Num(40), Num(70), NaN, Str}

Rgb(r, g, b) == Tup(<<Num(r), Num(g), Num(b)>>)
Rgba(r, g, b, a) == Tup(<<Num(r), Num(g), Num(b), Num(a)>>)

ColorInputs ==
    {Rgb(2, 4, 9), Rgb(-5, 20, 4), Rgba(2, 4, 9, 5), Rgba(15, -3, 0, 20),
     Tup(<<Num(2), Str, Num(9)>>),
     Tup(<<>>), Tup(<<Num(2), Num(4)>>), Tup(<<Str, Num(4)>>),
     Tup(<<Num(2), Num(4), Num(9), Num(5), Num(7)>>),
     Tup(<<Num(2), Num(4), Num(9), Num(5), Str>>)}

\* Three draws of random.random(), each in [0, 1).
RgbDraws == {<<0, 0, 0>>, <<2, 5, 9>>, <<9, 9, 9>>}

AlphaInputs == {Num(One), Num(5), Str}

\* The keyword arguments of apply_door_settings.
Args(w, h, ty, rt, pc, rc, al, tr) ==
    [width |-> w, height |-> h, door_type |-> ty, randomize_type |-> rt,
     paint_color |-> pc, randomize_color |-> rc, alpha |-> al,
     trigger_rebuild |-> tr]

NoArgs == Args(None, None, None, FALSE, None, FALSE, None, FALSE)

(***************************************************************************)
(* The record of the most recent call.  hit says whether the lookup was    *)
(* answered from the cache; before is the store as the call found it.  For *)
(* a batch call, results is the returned dictionary as its sequence of     *)
(* items, rebuilt says whether update_tag ran, and resolved is the set of  *)
(* labels its controller looked up in the tree.                            *)
(***************************************************************************)
NoCall ==
    [op |-> "none", label |-> "", arg |-> None, alpha |-> None, err |-> "",
     ret |-> None, item |-> 0, hit |-> FALSE, before |-> [i \in Ids |-> None],
     log |-> <<>>, draws |-> <<>>, args |-> NoArgs, results |-> <<>>,
     rebuilt |-> FALSE, resolved |-> {}]

Call(op, label, arg, alpha, res) ==
    [op |-> op, label |-> label, arg |-> arg, alpha |-> alpha, err |-> res.err,
     ret |-> res.ret, item |-> res.item, hit |-> res.hit, before |-> sink,
     log |-> res.st.log, draws |-> res.st.draws, args |-> NoArgs,
     results |-> <<>>, rebuilt |-> FALSE, resolved |-> {}]

\* bpy.context.scene (None or a scene), the object bpy.data.objects.get(name)
\* finds ("absent", "data": in the blend file only, "scene": in the active
\* scene too), whether it has a NODES modifier, its location, the location of
\* scene.cursor, and counts of the calls of scene.collection.objects.link,
\* of bpy.ops.mesh.add_door and of the objects left under other names.
World(hasScene, obj, nodes, location, cursor) ==
    [hasScene |-> hasScene, obj |-> obj, nodes |-> nodes,
     location |-> location, cursor |-> cursor,
     links |-> 0, ops |-> 0, extras |-> 0]

\* The object the controller operations and the batches work on.
DoorInScene == World(TRUE, "scene", TRUE, <<0, 0, 0>>, <<0, 0, 0>>)

NoDoorCall ==
    [op |-> "none", err |-> "", location |-> <<>>, args |-> NoArgs,
     override |-> "", outcome |-> "", world |-> DoorInScene,
     before |-> [i \in Ids |-> None], log |-> <<>>, keys |-> <<>>,
     created |-> FALSE, linked |-> FALSE, settings |-> <<>>,
     rebuilt |-> FALSE, at |-> <<>>]

Init ==
    /\ tree \in Trees
    /\ cache = <<>>
    /\ sink = [i \in Ids |-> None]
    /\ traversals = [l \in Labels |-> 0]
    /\ calls = 0
    /\ last = NoCall
    /\ world = DoorInScene
    /\ made = NoDoorCall

\* The controller is left as the operation left it, whether it returned or
\* raised.
Finish(op, label, arg, alpha, res) ==
    /\ calls < MaxCalls
    /\ calls' = calls + 1
    /\ cache' = res.st.cache
    /\ sink' = res.st.sink
    /\ traversals' = res.st.trav
    /\ last' = Call(op, label, arg, alpha, res)
    /\ UNCHANGED <<tree, world, made>>

Here == CtlState(cache, sink, traversals)

Resolve ==
    \E label \in Labels :
        LET r == GetInterfaceItem(tree, Here, label)
        IN  Finish("resolve", label, None, None,
                   IF r.err # "" THEN Raised(r.err, r, r.st)
                   ELSE Returned(None, r, r.st))

DoSetWidth ==
    \E value \in FloatInputs :
        Finish("set_width", "Width", value, None, SetWidth(tree, Here, value))

DoSetHeight ==
    \E value \in FloatInputs :
        Finish("set_height", "Height", value, None, SetHeight(tree, Here, value))

DoSetType ==
    \E value \in IntInputs :
        Finish("set_type", "Type", value, None, SetType(tree, Here, value))

DoRandomizeType ==
    \E pick \in 0..MaxPick :
        Finish("randomize_type", "Type", None, None,
               RandomizeType(tree, Here, pick))

DoSetPaintColor ==
    \E color \in ColorInputs :
        Finish("set_paint_color", "Paint Color", color, None,
               SetPaintColor(tree, Here, color))

DoRandomizePaintColor ==
    \E rgb \in RgbDraws, alpha \in AlphaInputs :
        Finish("randomize_paint_color", "Paint Color", None, alpha,
               RandomizePaintColor(tree, Here, rgb, alpha))

(***************************************************************************)
(* apply_door_settings.  A batch runs on a controller of its own, whose    *)
(* cache starts empty; b is the call's progress: the controller state, the *)
(* results dictionary so far and the error that ended it, if any.          *)
(***************************************************************************)
Progress(st, results, err) == [st |-> st, results |-> results, err |-> err]

\* d[key] = val on a dictionary kept as the sequence of its items: a new key
\* goes last, a key already there keeps its place.
SetItem(d, key, val) ==
    IF \E n \in 1..Len(d) : d[n].key = key
    THEN [n \in 1..Len(d) |-> IF d[n].key = key THEN [key |-> key, val |-> val]
                                                ELSE d[n]]
    ELSE Append(d, [key |-> key, val |-> val])

\* results[key] = <the value the operation returned>, or the operation's
\* error, which ends the call.
Assign(b, key, r) ==
    IF r.err # "" THEN Progress(r.st, b.results, r.err)
    ELSE Progress(r.st, SetItem(b.results, key, r.ret), "")

ApplyWidth(t, a, b) ==
    IF b.err = "" /\ a.width.k # "none"
    THEN Assign(b, "width", SetWidth(t, b.st, a.width))
    ELSE b

\* Variant of the height step that files its value under "width".
ApplyHeightAsWidth(t, a, b) ==
    IF b.err = "" /\ a.height.k # "none"
    THEN Assign(b, "width", SetHeight(t, b.st, a.height))
    ELSE b

ApplyHeight(t, a, b) ==
    IF b.err = "" /\ a.height.k # "none"
    THEN Assign(b, "height", SetHeight(t, b.st, a.height))
    ELSE b

\* Variant of the type step that looks at the randomize flag first.
ApplyTypeRandomFirst(t, a, b, pick) ==
    IF b.err # "" THEN b
    ELSE IF a.randomize_type
    THEN Assign(b, "type", RandomizeType(t, b.st, pick))
    ELSE IF a.door_type.k # "none"
    THEN Assign(b, "type", SetType(t, b.st, a.door_type))
    ELSE b

ApplyType(t, a, b, pick) ==
    IF b.err # "" THEN b
    ELSE IF a.door_type.k # "none"
    THEN Assign(b, "type", SetType(t, b.st, a.door_type))
    ELSE IF a.randomize_type
    THEN Assign(b, "type", RandomizeType(t, b.st, pick))
    ELSE b

\* Variant of the colour step that randomizes whenever no colour is given.
ApplyColorRandomDefault(t, a, b, rgb) ==
    IF b.err # "" THEN b
    ELSE IF a.paint_color.k # "none"
    THEN Assign(b, "paint_color", SetPaintColor(t, b.st, a.paint_color))
    ELSE Assign(b, "paint_color", RandomizePaintColor(t, b.st, rgb, a.alpha))

ApplyColor(t, a, b, rgb) ==
    IF b.err # "" THEN b
    ELSE IF a.paint_color.k # "none"
    THEN Assign(b, "paint_color", SetPaintColor(t, b.st, a.paint_color))
    ELSE IF a.randomize_color
    THEN Assign(b, "paint_color", RandomizePaintColor(t, b.st, rgb, a.alpha))
    ELSE b

\* The name of the controller's object, the first item of the dictionary.
ObjectName == Str

\* What the call leaves behind: an error ends it before the rebuild and
\* before anything is returned.
Outcome(a, done) ==
    [err |-> done.err,
     results |-> IF done.err = "" THEN done.results ELSE <<>>,
     rebuilt |-> done.err = "" /\ a.trigger_rebuild,
     st |-> done.st]

\* Variant of the batch that applies the colour before the type.
ApplyDoorSettingsColorFirst(t, s, a, pick, rgb) ==
    LET controller == CtlState(<<>>, s, [l \in Labels |-> 0])
        start == Progress(controller, SetItem(<<>>, "object", ObjectName), "")
        outcomes ==
            {Outcome(a, b4) :
                b4 \in {ApplyType(t, a, b3, pick) :
                    b3 \in {ApplyColor(t, a, b2, rgb) :
                        b2 \in {ApplyHeight(t, a, b1) :
                            b1 \in {ApplyWidth(t, a, start)}}}}}
    IN  CHOOSE out \in outcomes : TRUE

\* The four steps in program order, each evaluated once on the progress the
\* previous one left.
ApplyDoorSettings(t, s, a, pick, rgb) ==
    LET controller == CtlState(<<>>, s, [l \in Labels |-> 0])
        start == Progress(controller, SetItem(<<>>, "object", ObjectName), "")
        outcomes ==
            {Outcome(a, b4) :
                b4 \in {ApplyColor(t, a, b3, rgb) :
                    b3 \in {ApplyType(t, a, b2, pick) :
                        b2 \in {ApplyHeight(t, a, b1) :
                            b1 \in {ApplyWidth(t, a, start)}}}}}
    IN  CHOOSE out \in outcomes : TRUE

BatchWidths == {None, Num(100)}
BatchHeights == {None, Num(25)}
BatchTypes == {None, Num(-20)}
BatchColors == {None, Rgb(2, 4, 9), Tup(<<Num(2), Num(4)>>)}
BatchAlphas == {Num(5)}
BatchDraws == {<<2, 5, 9>>, <<9, 9, 9>>}

BatchArgs ==
    {Args(w, h, ty, rt, pc, rc, al, tr) :
        w \in BatchWidths, h \in BatchHeights, ty \in BatchTypes,
        rt \in BOOLEAN, pc \in BatchColors, rc \in BOOLEAN,
        al \in BatchAlphas, tr \in BOOLEAN}

\* The random sources are consulted only on the branches that randomize.
DrawsType(a) == IF a.door_type.k = "none" /\ a.randomize_type THEN 0..MaxPick ELSE {0}
DrawsColor(a) == IF a.paint_color.k = "none" /\ a.randomize_color THEN BatchDraws ELSE {<<0, 0, 0>>}

DoApplyDoorSettings ==
    /\ calls < MaxBatch
    /\ \E a \in BatchArgs :
        \E pick \in DrawsType(a), rgb \in DrawsColor(a) :
            \E res \in {ApplyDoorSettings(tree, sink, a, pick, rgb)} :
                /\ calls' = calls + 1
                /\ sink' = res.st.sink
                /\ last' = [NoCall EXCEPT
                                !.op = "apply_door_settings", !.err = res.err,
                                !.before = sink, !.log = res.st.log,
                                !.draws = res.st.draws, !.args = a,
                                !.results = res.results, !.rebuilt = res.rebuilt,
                                !.resolved = {l \in Labels : res.st.trav[l] > 0}]
                /\ UNCHANGED <<tree, cache, traversals, world, made>>

(***************************************************************************)
(* create_door.  One name is requested throughout; sink is the store of    *)
(* the modifier of the object of that name (of the object the operator     *)
(* adds, when there is none yet).                                          *)
(***************************************************************************)
\* apply_door_settings(obj=...): the controller cannot be constructed on an
\* object without a NODES modifier.
ApplyTo(t, s, w, a, pick, rgb) ==
    IF ~w.nodes
    THEN [err |-> "NoModifier", results |-> <<>>, rebuilt |-> FALSE,
          st |-> CtlState(<<>>, s, [l \in Labels |-> 0])]
    ELSE ApplyDoorSettings(t, s, a, pick, rgb)

\* What a call of create_door leaves: the error that ended it ("" when it
\* returned), the keys of the dictionary returned and its "created" and
\* "linked" items, the settings summary, the world and the store, the
\* writes made, and the cursor location the operator ran at (<<>> when it
\* was not invoked).
Door(err, keys, created, linked, applied, w, s, at) ==
    [err |-> err, keys |-> keys, created |-> created, linked |-> linked,
     settings |-> applied.results, rebuilt |-> applied.rebuilt,
     world |-> w, sink |-> s, log |-> applied.st.log, at |-> at]

NotApplied(s) ==
    [err |-> "", results |-> <<>>, rebuilt |-> FALSE,
     st |-> CtlState(<<>>, s, [l \in Labels |-> 0])]

\* The one element of a singleton.
Only(S) == CHOOSE x \in S : TRUE

\* The end of both paths: apply_door_settings on the object, whose error
\* ends the call, then the dictionary with the given keys.
Configure(t, s, w, a, pick, rgb, keys, created, linked, at) ==
    Only({IF applied.err # ""
          THEN Door(applied.err, <<>>, FALSE, FALSE, applied, w,
                    applied.st.sink, at)
          ELSE Door("", keys, created, linked, applied, w, applied.st.sink, at) :
             applied \in {ApplyTo(t, s, w, a, pick, rgb)}})

\* Variant of the branch for an existing object that links it in whether or
\* not the scene has it.
ExistingDoorAlwaysLinks(t, s, w, location_vec, a, pick, rgb) ==
    Configure(t, s,
              [w EXCEPT !.obj = "scene", !.links = @ + 1,
                        !.location = location_vec],
              a, pick, rgb, <<"object", "created", "linked", "settings">>,
              FALSE, TRUE, <<>>)

\* The branch for an object that exists: not in the scene, it is linked,
\* moved and configured; in the scene, nothing is done.
ExistingDoor(t, s, w, location_vec, a, pick, rgb) ==
    IF w.obj # "scene"
    THEN Configure(t, s,
                   [w EXCEPT !.obj = "scene", !.links = @ + 1,
                             !.location = location_vec],
                   a, pick, rgb, <<"object", "created", "linked", "settings">>,
                   FALSE, TRUE, <<>>)
    ELSE Door("", <<"object", "created", "linked">>, FALSE, FALSE,
              NotApplied(s), w, s, <<>>)

\* How the context override turns out: a VIEW_3D area is "found", it is
\* "missing" (the RuntimeError is caught and the operator runs without an
\* override), or building or entering the override "fails" otherwise.
Overrides == {"found", "missing", "fails"}

\* How the operator turns out: it raises, returns {'CANCELLED'}, or returns
\* {'FINISHED'} having added no object, an object that is not the door, an
\* object named "Door It! Interior" without a NODES modifier, or the door
\* with its NODES modifier.
Outcomes == {"raises", "CANCELLED", "none", "other", "named", "door"}

\* Variant of the operator block that puts the cursor back only after the
\* operator finished.
RunOperatorRestoresOnSuccess(w, location_vec, override, outcome) ==
    LET moved == [w EXCEPT !.cursor = location_vec]
        invoked == [moved EXCEPT !.ops = @ + 1]
        ran == IF override = "fails"
               THEN [err |-> "OverrideError", w |-> moved, at |-> <<>>]
               ELSE IF outcome = "raises"
               THEN [err |-> "OperatorRaised", w |-> invoked, at |-> moved.cursor]
               ELSE IF outcome = "CANCELLED"
               THEN [err |-> "OperatorError", w |-> invoked, at |-> moved.cursor]
               ELSE [err |-> "", w |-> invoked, at |-> moved.cursor]
    IN  IF ran.err = "" THEN [ran EXCEPT !.w.cursor = w.cursor] ELSE ran

\* The try / finally around the operator: the cursor goes to the target, the
\* operator is invoked with or without the override, a result other than
\* {'FINISHED'} raises, and in every case the cursor is put back.
RunOperator(w, location_vec, override, outcome) ==
    LET moved == [w EXCEPT !.cursor = location_vec]
        invoked == [moved EXCEPT !.ops = @ + 1]
        ran == IF override = "fails"
               THEN [err |-> "OverrideError", w |-> moved, at |-> <<>>]
               ELSE IF outcome = "raises"
               THEN [err |-> "OperatorRaised", w |-> invoked, at |-> moved.cursor]
               ELSE IF outcome = "CANCELLED"
               THEN [err |-> "OperatorError", w |-> invoked, at |-> moved.cursor]
               ELSE [err |-> "", w |-> invoked, at |-> moved.cursor]
    IN  [ran EXCEPT !.w.cursor = w.cursor]

\* After the operator block: its error ends the call; else the door is
\* looked for among the objects the operator added, moved and renamed, and
\* configured.
FindDoor(t, s, ran, location_vec, a, outcome, pick, rgb) ==
    IF ran.err # ""
    THEN Door(ran.err, <<>>, FALSE, FALSE, NotApplied(s), ran.w, s, ran.at)
    ELSE IF outcome = "none"
    THEN Door("NoObjects", <<>>, FALSE, FALSE, NotApplied(s), ran.w, s, ran.at)
    ELSE IF outcome = "other"
    THEN Door("NoDoor", <<>>, FALSE, FALSE, NotApplied(s),
              [ran.w EXCEPT !.extras = @ + 1], s, ran.at)
    ELSE Configure(t, s,
                   [ran.w EXCEPT !.obj = "scene", !.nodes = (outcome = "door"),
                                 !.location = location_vec],
                   a, pick, rgb, <<"object", "created", "settings">>,
                   TRUE, FALSE, ran.at)

\* The creation path: the operator block, then the rest.
NewDoor(t, s, w, location_vec, a, override, outcome, pick, rgb) ==
    Only({FindDoor(t, s, ran, location_vec, a, outcome, pick, rgb) :
             ran \in {RunOperator(w, location_vec, override, outcome)}})

\* create_door: the scene and the location are checked first, then an
\* object of the requested name decides between the two paths.
CreateDoor(t, s, w, location, a, override, outcome, pick, rgb) ==
    IF ~w.hasScene
    THEN Door("SceneError", <<>>, FALSE, FALSE, NotApplied(s), w, s, <<>>)
    ELSE IF Len(location) # 3
    THEN Door("LocationError", <<>>, FALSE, FALSE, NotApplied(s), w, s, <<>>)
    ELSE IF w.obj # "absent"
    THEN ExistingDoor(t, s, w, location, a, pick, rgb)
    ELSE NewDoor(t, s, w, location, a, override, outcome, pick, rgb)

\* The interfaces, the worlds and the arguments create_door is tried on.
CreateTrees == {TreeFlat, TreeSparse}

Worlds ==
    {World(TRUE, "absent", FALSE, <<0, 0, 0>>, <<0, 0, 0>>),
     World(TRUE, "absent", FALSE, <<0, 0, 0>>, <<5, 5, 5>>),
     World(TRUE, "data", TRUE, <<7, 7, 7>>, <<5, 5, 5>>),
     World(TRUE, "data", FALSE, <<7, 7, 7>>, <<0, 0, 0>>),
     World(TRUE, "scene", TRUE, <<7, 7, 7>>, <<5, 5, 5>>),
     World(TRUE, "scene", TRUE, <<0, 0, 0>>, <<0, 0, 0>>),
     World(FALSE, "absent", FALSE, <<0, 0, 0>>, <<0, 0, 0>>)}

Locations == {<<0, 0, 0>>, <<10, 20, 30>>, <<10, 20>>}

CreateArgs ==
    {Args(None, None, None, FALSE, None, FALSE, Num(One), TRUE),
     Args(Num(100), None, None, TRUE, None, FALSE, Num(One), TRUE),
     Args(Num(100), Num(25), None, FALSE, Tup(<<Num(2), Num(4)>>), FALSE,
          Num(One), TRUE)}

\* The operator and the override matter on the creation path only.
Creates(w, location) == w.hasScene /\ Len(location) = 3 /\ w.obj = "absent"
OverridesOn(w, location) == IF Creates(w, location) THEN Overrides ELSE {"found"}
OutcomesOn(w, location) == IF Creates(w, location) THEN Outcomes ELSE {"door"}

InitCreate ==
    /\ tree \in CreateTrees
    /\ cache = <<>>
    /\ sink = [i \in Ids |-> None]
    /\ traversals = [l \in Labels |-> 0]
    /\ calls = 0
    /\ last = NoCall
    /\ world \in Worlds
    /\ made = NoDoorCall

DoCreateDoor ==
    /\ calls < MaxCreate
    /\ \E location \in Locations, a \in CreateArgs :
        \E override \in OverridesOn(world, location),
           outcome \in OutcomesOn(world, location), pick \in DrawsType(a) :
            \E res \in {CreateDoor(tree, sink, world, location, a, override,
                                   outcome, pick, <<0, 0, 0>>)} :
                /\ calls' = calls + 1
                /\ sink' = res.sink
                /\ world' = res.world
                /\ made' = [op |-> "create_door", err |-> res.err,
                            location |-> location, args |-> a,
                            override |-> override, outcome |-> outcome,
                            world |-> world, before |-> sink, log |-> res.log,
                            keys |-> res.keys, created |-> res.created,
                            linked |-> res.linked, settings |-> res.settings,
                            rebuilt |-> res.rebuilt, at |-> res.at]
                /\ UNCHANGED <<tree, cache, traversals, last>>

Next ==
    \/ Resolve
    \/ DoSetWidth
    \/ DoSetHeight
    \/ DoSetType
    \/ DoRandomizeType
    \/ DoSetPaintColor
    \/ DoRandomizePaintColor

Spec == Init /\ [][Next]_vars

NextBatch == DoApplyDoorSettings

SpecBatch == Init /\ [][NextBatch]_vars

NextCreate == DoCreateDoor

SpecCreate == InitCreate /\ [][NextCreate]_vars

(***************************************************************************)
(* Properties.                                                             *)
(***************************************************************************)
\* The label names a socket of the tree, and the socket it names.
Present(label) == FirstMatch(tree, label) # 0
Socket(label) == tree.nodes[FirstMatch(tree, label)]

DeclaresBoth(label) == Socket(label).hasMin /\ Socket(label).hasMax

\* x is a float (NaN included); x is a real number.
IsFloat(x) == x.k \in {"num", "nan"}

WriteOps ==
    {"set_width", "set_height", "set_type", "randomize_type",
     "set_paint_color", "randomize_paint_color"}

\* C1: when the label of set_width / set_height names a socket that declares
\* both bounds, the call given a real number v returns a value within
\* [min, max], and returns v itself when v already lies within them.
C1_SetNumericWithinBounds ==
    (/\ last.op \in {"set_width", "set_height"}
     /\ Present(last.label)
     /\ DeclaresBoth(last.label)
     /\ IsNum(last.arg))
    => /\ last.err = ""
       /\ IsNum(last.ret)
       /\ Socket(last.label).min <= last.ret.v
       /\ last.ret.v <= Socket(last.label).max
       /\ (/\ Socket(last.label).min <= last.arg.v
           /\ last.arg.v <= Socket(last.label).max) => last.ret = last.arg

\* A width above the declared maximum came back as the maximum, after a
\* height inside its bounds came back unchanged.
C1_Witness ==
    /\ last.op = "set_width" /\ last.arg = Num(100) /\ last.ret = Num(30)
    /\ Present("Width") /\ Present("Height")
    /\ DeclaresBoth("Width") /\ DeclaresBoth("Height")
    /\ sink[Socket("Height").id] = Num(17)

C3_AnyLabelWalkedAtMostOnce ==
    \A l \in Labels :
        /\ traversals[l] <= 1
        /\ (last.label = l /\ last.item # 0) => last.item = FirstMatch(tree, l)

\* C3, amended: for any label that names a socket of the tree, every call
\* that returns a socket returns the same one, the cached one is that one,
\* and the tree is walked at most once for the label.
C3_PresentLabelWalkedAtMostOnce ==
    \A l \in Labels :
        Present(l) =>
            /\ traversals[l] <= 1
            /\ (last.label = l /\ last.item # 0) => last.item = FirstMatch(tree, l)
            /\ l \in DOMAIN cache => cache[l] = FirstMatch(tree, l)

\* The second of two lookups of a label was answered from the cache.
C3_Witness ==
    /\ calls = 2 /\ last.op = "resolve" /\ last.hit
    /\ last.item # 0 /\ traversals[last.label] = 1

\* C4: set_paint_color on an existing colour socket, given 3 floats, writes
\* and returns them followed by 1.0; given 4 floats, it writes and returns
\* exactly those four, whatever their size.
C4_ColorPassThrough ==
    (/\ last.op = "set_paint_color"
     /\ Present("Paint Color")
     /\ Len(last.arg.c) \in {3, 4}
     /\ \A n \in 1..Len(last.arg.c) : IsFloat(last.arg.c[n]))
    => /\ last.err = ""
       /\ last.ret.k = "tuple"
       /\ last.ret.c = IF Len(last.arg.c) = 3
                       THEN last.arg.c \o <<Num(One)>>
                       ELSE last.arg.c
       /\ sink[Socket("Paint Color").id] = last.ret

\* A colour with channels outside [0, 1] was written as given.
C4_Witness ==
    /\ last.op = "set_paint_color" /\ last.arg = Rgba(15, -3, 0, 20)
    /\ Present("Paint Color")
    /\ sink[Socket("Paint Color").id] = Rgba(15, -3, 0, 20)
    /\ \E i \in Ids : last.before[i] = Tup(<<Num(-5), Num(20), Num(4), Num(One)>>)

\* C5: set_paint_color on an existing colour socket, given a sequence of
\* neither 3 nor 4 components, raises the arity error, whatever the
\* components are, and writes nothing.
C5_BadArityRaisesNoWrite ==
    (/\ last.op = "set_paint_color"
     /\ Present("Paint Color")
     /\ Len(last.arg.c) \notin {3, 4})
    => /\ last.err = "ArityError"
       /\ last.log = <<>>
       /\ sink = last.before

\* A 2-sequence whose first component is no number raised the arity error.
C5_Witness ==
    /\ last.op = "set_paint_color" /\ last.arg = Tup(<<Str, Num(4)>>)
    /\ Present("Paint Color") /\ last.err = "ArityError"

\* The clamp as the specification states it: v brought into the bounds the
\* socket declares, a bound it does not declare not constraining.
ClampedTo(label, v) ==
    LET lo == IF Socket(label).hasMin /\ v < Socket(label).min
              THEN Socket(label).min ELSE v
    IN  IF Socket(label).hasMax /\ lo > Socket(label).max
        THEN Socket(label).max ELSE lo

\* C6: set_type on an existing type socket, given a number, writes and
\* returns the number truncated to an integer and clamped into the declared
\* bounds, an undeclared bound not constraining on its side (no bound: the
\* input; a minimum only: max(min, input); a maximum only: min(input, max));
\* with bounds [0, 4] and input -2 the result is 0.
C6_SetTypeClampsDeclaredBounds ==
    (last.op = "set_type" /\ Present("Type") /\ IsNum(last.arg))
    => /\ last.err = ""
       /\ last.ret = Num(ClampedTo("Type", Trunc(last.arg.v)))
       /\ sink[Socket("Type").id] = last.ret
       /\ (/\ DeclaresBoth("Type")
           /\ Socket("Type").min = 0 /\ Socket("Type").max = 4 * One
           /\ last.arg = Num(-2 * One)) => last.ret = Num(0)

\* C7: randomize_type on an existing type socket that declares both bounds
\* writes and returns an integer between them, both included, whatever the
\* random source yields.
C7_RandomTypeWithinBounds ==
    (last.op = "randomize_type" /\ Present("Type") /\ DeclaresBoth("Type"))
    => /\ last.err = ""
       /\ IsNum(last.ret)
       /\ last.ret.v % One = 0
       /\ Socket("Type").min <= last.ret.v
       /\ last.ret.v <= Socket("Type").max
       /\ sink[Socket("Type").id] = last.ret

\* The draw was the declared maximum, after an earlier draw of the minimum.
C7_Witness ==
    /\ last.op = "randomize_type" /\ Present("Type") /\ DeclaresBoth("Type")
    /\ last.ret = Num(Socket("Type").max)
    /\ last.before[Socket("Type").id] = Num(Socket("Type").min)
    /\ Socket("Type").min < Socket("Type").max

\* C8: after a write operation that returned, the store holds the returned
\* value under the identifier of the socket the operation resolved; a width
\* of 10.0 on bounds [0.3, 3.0] returns 3.0 and the store holds 3.0.
C8_StoreHoldsReturnedValue ==
    (last.op \in WriteOps /\ last.err = "")
    => /\ Present(last.label)
       /\ last.item = FirstMatch(tree, last.label)
       /\ sink[Socket(last.label).id] = last.ret
       /\ (/\ last.op = "set_width" /\ last.arg = Num(100)
           /\ DeclaresBoth("Width")
           /\ Socket("Width").min = 3 /\ Socket("Width").max = 30)
          => last.ret = Num(30) /\ sink[Socket("Width").id] = Num(30)

\* A width of 10.0 was asked for and 3.0 is what the store holds.
C8_Witness ==
    /\ last.op = "set_width" /\ last.err = "" /\ last.arg = Num(100)
    /\ Present("Width")
    /\ sink[Socket("Width").id] = Num(30)

\* The keys of a dictionary in order, and the value under a key.
Keys(d) == [n \in 1..Len(d) |-> d[n].key]
HasKey(d, key) == \E n \in 1..Len(d) : d[n].key = key
Item(d, key) == d[CHOOSE n \in 1..Len(d) : d[n].key = key].val

Drawn(fn) == \E n \in 1..Len(last.draws) : last.draws[n] = fn
WrittenTo(id) == {last.log[n].val : n \in {m \in 1..Len(last.log) : last.log[m].id = id}}

\* A colour as set_paint_color stores it.
Normalised(color) ==
    Tup(IF Len(color.c) = 3 THEN color.c \o <<Num(One)>> ELSE color.c)

\* What set_type alone returns for value on the store the batch found.
ExplicitType(value) ==
    SetType(tree, CtlState(<<>>, last.before, [l \in Labels |-> 0]), value).ret

\* C9: in a batch given both door_type and randomize_type, randint is never
\* called, nothing but door_type as set_type clamps it is written to the type
\* socket, and a batch that returns reports and leaves that value; likewise a
\* batch given both paint_color and randomize_color never calls random.random
\* and writes, reports and leaves nothing but the given colour.
C9_ExplicitBeatsRandom ==
    last.op = "apply_door_settings" =>
        /\ (last.args.door_type.k # "none" /\ last.args.randomize_type)
           => /\ ~Drawn("randint")
              /\ Present("Type") =>
                    /\ WrittenTo(Socket("Type").id) \subseteq
                         {ExplicitType(last.args.door_type)}
                    /\ last.err = "" =>
                         /\ HasKey(last.results, "type")
                         /\ {Item(last.results, "type"), sink[Socket("Type").id]}
                              = WrittenTo(Socket("Type").id)
        /\ (last.args.paint_color.k # "none" /\ last.args.randomize_color)
           => /\ ~Drawn("random")
              /\ Present("Paint Color") =>
                    /\ WrittenTo(Socket("Paint Color").id) \subseteq
                         {Normalised(last.args.paint_color)}
                    /\ last.err = "" =>
                         /\ HasKey(last.results, "paint_color")
                         /\ {Item(last.results, "paint_color"),
                             sink[Socket("Paint Color").id]}
                              = WrittenTo(Socket("Paint Color").id)

\* A batch given a type and a colour with both randomize flags set returned.
C9_Witness ==
    /\ last.op = "apply_door_settings" /\ last.err = ""
    /\ last.args.door_type = Num(-20) /\ last.args.randomize_type
    /\ last.args.paint_color = Rgb(2, 4, 9) /\ last.args.randomize_color
    /\ Present("Type") /\ DeclaresBoth("Type") /\ Socket("Type").min = 0
    /\ sink[Socket("Type").id] = Num(0)

\* The roles a batch was asked to touch, in the order it applies them.
Touched(a) ==
    (IF a.width.k # "none" THEN <<"width">> ELSE <<>>)
    \o (IF a.height.k # "none" THEN <<"height">> ELSE <<>>)
    \o (IF a.door_type.k # "none" \/ a.randomize_type THEN <<"type">> ELSE <<>>)
    \o (IF a.paint_color.k # "none" \/ a.randomize_color
        THEN <<"paint_color">> ELSE <<>>)

\* C10 as claimed: the record a batch returns has exactly the touched roles
\* as its keys, in the order width, height, type, paint colour, and nothing
\* else.
C10_RecordHasOnlyTouchedRoles ==
    (last.op = "apply_door_settings" /\ last.err = "")
    => Keys(last.results) = Touched(last.args)

\* C10, amended: the record a batch returns starts with the entry "object",
\* the name of the object, and then has exactly the touched roles as its
\* keys, in the order width, height, type, paint colour.
C10_RecordHasObjectThenTouchedRoles ==
    (last.op = "apply_door_settings" /\ last.err = "")
    => /\ Keys(last.results) = <<"object">> \o Touched(last.args)
       /\ Item(last.results, "object") = ObjectName

\* A batch given a width and randomize_type, and nothing for the colour,
\* returned object, width and type, and wrote no colour.
C10_Witness ==
    /\ last.op = "apply_door_settings" /\ last.err = ""
    /\ last.args.width.k # "none" /\ last.args.height.k = "none"
    /\ last.args.door_type.k = "none" /\ last.args.randomize_type
    /\ last.args.paint_color.k = "none" /\ ~last.args.randomize_color
    /\ Keys(last.results) = <<"object", "width", "type">>
    /\ Present("Paint Color") /\ WrittenTo(Socket("Paint Color").id) = {}

\* The label each role of a batch is applied to, and whether the batch was
\* given nothing for the role.
RoleLabel(role) ==
    CASE role = "width" -> "Width"
      [] role = "height" -> "Height"
      [] role = "type" -> "Type"
      [] role = "paint_color" -> "Paint Color"

Roles == <<"width", "height", "type", "paint_color">>

Omitted(a, role) == \A n \in 1..Len(Touched(a)) : Touched(a)[n] # role

\* C11: a batch given neither a value nor a randomize flag for a role never
\* looks the role's label up, writes nothing under its socket's identifier
\* and leaves the store's entry for it as it found it.
C11_OmittedRoleUntouched ==
    last.op = "apply_door_settings" =>
        \A n \in 1..Len(Roles) :
            Omitted(last.args, Roles[n]) =>
                /\ RoleLabel(Roles[n]) \notin last.resolved
                /\ Present(RoleLabel(Roles[n])) =>
                     /\ WrittenTo(Socket(RoleLabel(Roles[n])).id) = {}
                     /\ sink[Socket(RoleLabel(Roles[n])).id]
                          = last.before[Socket(RoleLabel(Roles[n])).id]

\* A batch given only a width and a type wrote those two sockets and neither
\* looked up nor wrote the height and colour sockets, which exist.
C11_Witness ==
    /\ last.op = "apply_door_settings" /\ last.err = ""
    /\ Touched(last.args) = <<"width", "type">>
    /\ Present("Height") /\ Present("Paint Color")
    /\ last.resolved = {"Width", "Type"}
    /\ Len(last.log) = 2
    /\ sink[Socket("Paint Color").id] = None

\* C12 as claimed: set_paint_color on an existing colour socket, given more
\* than 4 floats, writes the first 4 of them.
C12_LongColorTruncated ==
    (/\ last.op = "set_paint_color"
     /\ Present("Paint Color")
     /\ Len(last.arg.c) > 4
     /\ \A n \in 1..4 : IsFloat(last.arg.c[n]))
    => /\ last.err = ""
       /\ sink[Socket("Paint Color").id] = Tup(SubSeq(last.arg.c, 1, 4))

\* C12, amended: set_paint_color on an existing colour socket, given more
\* than 4 components, raises the arity error and applies nothing: the store
\* is as the call found it.
C12_LongColorRejected ==
    (/\ last.op = "set_paint_color"
     /\ Present("Paint Color")
     /\ Len(last.arg.c) > 4)
    => /\ last.err = "ArityError"
       /\ last.ret = None
       /\ WrittenTo(Socket("Paint Color").id) = {}
       /\ sink[Socket("Paint Color").id] = last.before[Socket("Paint Color").id]

\* Five floats were refused and the colour written before them is still there.
C12_Witness ==
    /\ last.op = "set_paint_color"
    /\ last.arg = Tup(<<Num(2), Num(4), Num(9), Num(5), Num(7)>>)
    /\ last.err = "ArityError"
    /\ Present("Paint Color")
    /\ sink[Socket("Paint Color").id] = Rgba(15, -3, 0, 20)

\* C13: randomize_type and randomize_paint_color, whatever bounds the socket
\* declares and whatever alpha is given, either return or raise the
\* not-found error.
C13_RandomizeRaisesOnlyNotFound ==
    last.op \in {"randomize_type", "randomize_paint_color"}
    => /\ last.err \in {"", "KeyError"}
       /\ last.err = "KeyError" => ~Present(last.label)

\* C17: randomize_type on an existing type socket that declares neither
\* bound writes and returns 0, whatever the random source yields.
C17_RandomTypeNoBoundsIsZero ==
    (/\ last.op = "randomize_type"
     /\ Present("Type")
     /\ ~Socket("Type").hasMin /\ ~Socket("Type").hasMax)
    => /\ last.err = ""
       /\ last.ret = Num(0)
       /\ sink[Socket("Type").id] = Num(0)
       /\ last.draws = <<"randint">>

\* On a socket without bounds the type was randomized over a 7 written
\* before, and 0 is what the store holds.
C17_Witness ==
    /\ last.op = "randomize_type" /\ last.ret = Num(0)
    /\ Present("Type")
    /\ ~Socket("Type").hasMin /\ ~Socket("Type").hasMax
    /\ last.before[Socket("Type").id] = Num(70)
    /\ sink[Socket("Type").id] = Num(0)

\* C18: a batch writes in the order width, height, type, paint colour and
\* is not atomic.  The writes it made are those of the touched roles, in
\* that order, up to the first step that raised; every one of them is in
\* the store when the call ends and every other entry is as it was.  When a
\* step raised, not every touched role was written, the rebuild was not
\* triggered and no record was returned.
C18_OrderedWritesNoRollback ==
    last.op = "apply_door_settings" =>
        LET roles == Touched(last.args)
            written == last.log
        IN  /\ Len(written) <= Len(roles)
            /\ \A n \in 1..Len(written) :
                   /\ Present(RoleLabel(roles[n]))
                   /\ written[n].id = Socket(RoleLabel(roles[n])).id
                   /\ sink[written[n].id] = written[n].val
            /\ \A id \in Ids :
                   (\A n \in 1..Len(written) : written[n].id # id)
                   => sink[id] = last.before[id]
            /\ last.err = "" => Len(written) = Len(roles)
            /\ last.err # "" =>
                   /\ Len(written) < Len(roles)
                   /\ ~last.rebuilt
                   /\ last.results = <<>>

\* A batch asked to rebuild wrote width and height, then raised on the
\* colour: both writes are in the store, nothing was rebuilt or returned.
C18_Witness ==
    /\ last.op = "apply_door_settings" /\ last.err = "ArityError"
    /\ last.args.trigger_rebuild /\ ~last.rebuilt
    /\ last.results = <<>>
    /\ Len(last.log) = 2
    /\ Present("Width") /\ Present("Height")
    /\ sink[Socket("Width").id] = Num(30)
    /\ sink[Socket("Height").id] = Num(25)

\* The place of a node in the tree: the node it is nested in (0 at top
\* level), its position among its siblings, and the positions from the top
\* level down to it.
ParentOf(t, i) ==
    LET above == {j \in 1..Len(t.nodes) :
                     \E n \in 1..Len(t.nodes[j].kids) : t.nodes[j].kids[n] = i}
    IN  IF above = {} THEN 0 ELSE CHOOSE j \in above : TRUE

PositionOf(t, i) ==
    LET siblings == IF ParentOf(t, i) = 0 THEN t.roots
                    ELSE t.nodes[ParentOf(t, i)].kids
    IN  CHOOSE n \in 1..Len(siblings) : siblings[n] = i

RECURSIVE PathOf(_, _)
PathOf(t, i) ==
    IF ParentOf(t, i) = 0 THEN <<PositionOf(t, i)>>
    ELSE Append(PathOf(t, ParentOf(t, i)), PositionOf(t, i))

\* i comes before j in pre-order: i contains j, or where their paths part
\* i's goes to the earlier sibling.
Precedes(t, i, j) ==
    LET p == PathOf(t, i)
        q == PathOf(t, j)
    IN  \/ Len(p) < Len(q) /\ SubSeq(q, 1, Len(p)) = p
        \/ \E n \in 1..Len(p) :
               /\ n <= Len(q)
               /\ SubSeq(p, 1, n - 1) = SubSeq(q, 1, n - 1)
               /\ p[n] < q[n]

\* The nodes that carry the label and have an identifier.
Candidates(label) ==
    {i \in 1..Len(tree.nodes) :
        tree.nodes[i].name = label /\ tree.nodes[i].hasId}

\* C15: the lookup returns a node that carries the label and has an
\* identifier, and every other such node comes after it in pre-order; a
\* panel is never returned, whatever its label; the lookup raises not-found
\* exactly when no node carries the label together with an identifier.
C15_FirstPreorderSocketWins ==
    last.op = "resolve" =>
        IF Candidates(last.label) = {}
        THEN last.err = "KeyError"
        ELSE /\ last.err = ""
             /\ last.item \in Candidates(last.label)
             /\ tree.nodes[last.item].hasId
             /\ \A j \in Candidates(last.label) \ {last.item} :
                    Precedes(tree, last.item, j)

\* In the nested tree "Paint Color" resolved to the socket inside the panel
\* of the same label, after "Width" resolved to the first of two sockets.
C15_Witness ==
    /\ tree = TreeNested
    /\ last.op = "resolve" /\ last.label = "Paint Color" /\ last.item = 6
    /\ "Width" \in DOMAIN cache /\ cache["Width"] = 2

\* What the cache holds is sound: nothing before the first operation, and
\* under each label a node of the tree with that label and an identifier.
CacheSound ==
    /\ calls = 0 => cache = <<>>
    /\ \A l \in DOMAIN cache :
           /\ cache[l] \in 1..Len(tree.nodes)
           /\ tree.nodes[cache[l]].name = l
           /\ tree.nodes[cache[l]].hasId

\* What a step may do to the cache: keep every entry as it is and add at
\* most the entry of the label the operation resolved, none when the lookup
\* failed.
CacheGrowsByResolved ==
    /\ \A l \in DOMAIN cache : l \in DOMAIN cache' /\ cache'[l] = cache[l]
    /\ \A l \in DOMAIN cache' \ DOMAIN cache :
           /\ l = last'.label
           /\ last'.err # "KeyError"
           /\ cache'[l] = last'.item
    /\ last'.err = "KeyError" => cache' = cache

\* C16: the cache is empty at construction, every entry maps a label to a
\* node of the tree with that label and an identifier, an entry is never
\* changed or removed, a failed lookup adds none, and an operation adds at
\* most the entry of the label it resolved.
C16_CacheOnlyGrowsBySoundEntries == []CacheSound /\ [][CacheGrowsByResolved]_vars

\* An entry made by the first operation is still there after a second one
\* failed to find its label.
C16_Witness ==
    /\ calls = 2
    /\ last.err = "KeyError"
    /\ DOMAIN cache = {"Width"}
    /\ cache["Width"] = FirstMatch(tree, "Width")

\* C14: create_door for a name whose object is already in the active scene
\* changes nothing: the object is not linked again or moved, no socket is
\* written, the add-door operator is not invoked and the cursor stays where
\* it is.  Given a 3-component location the call returns the object's name
\* with created = False and linked = False, and no settings summary.
C14_DoorInSceneIsNoOp ==
    (made.op = "create_door" /\ made.world.hasScene /\ made.world.obj = "scene")
    => /\ world = made.world
       /\ world.links = made.world.links
       /\ world.location = made.world.location
       /\ world.ops = made.world.ops
       /\ world.cursor = made.world.cursor
       /\ sink = made.before
       /\ made.log = <<>>
       /\ made.at = <<>>
       /\ ~made.rebuilt
       /\ Len(made.location) = 3 =>
              /\ made.err = ""
              /\ made.keys = <<"object", "created", "linked">>
              /\ ~made.created
              /\ ~made.linked
              /\ made.settings = <<>>

\* A door standing at (0.7, 0.7, 0.7) was asked for again at (1, 2, 3) with
\* a width and a colour: it stands where it stood and the call returned.
C14_Witness ==
    /\ made.op = "create_door" /\ made.err = ""
    /\ made.world.obj = "scene"
    /\ made.location = <<10, 20, 30>>
    /\ made.args.width = Num(100)
    /\ world.location = <<7, 7, 7>>
    /\ made.keys = <<"object", "created", "linked">>
    /\ sink = [i \in Ids |-> None]

\* C19: on the creation path of create_door the cursor is, after the call,
\* where it was before it, whether the operator finished, returned another
\* result or raised, or the context override failed; and whenever the
\* operator was invoked the cursor was at the target location.
C19_CursorRestored ==
    (made.op = "create_door" /\ Creates(made.world, made.location))
    => /\ world.cursor = made.world.cursor
       /\ made.override # "fails" =>
              /\ world.ops = made.world.ops + 1
              /\ made.at = made.location
       /\ made.override = "fails" =>
              /\ world.ops = made.world.ops
              /\ made.at = <<>>
              /\ made.err = "OverrideError"
       /\ (made.override # "fails" /\ made.outcome = "CANCELLED")
              => made.err = "OperatorError"
       /\ (made.override # "fails" /\ made.outcome = "raises")
              => made.err = "OperatorRaised"

\* The operator ran with the cursor at (1, 2, 3) and returned
\* {'CANCELLED'}: the call raised and the cursor is back at (0.5, 0.5, 0.5).
C19_Witness ==
    /\ made.op = "create_door" /\ made.err = "OperatorError"
    /\ made.world.cursor = <<5, 5, 5>>
    /\ made.location = <<10, 20, 30>>
    /\ made.at = <<10, 20, 30>>
    /\ world.cursor = <<5, 5, 5>>
    /\ world.ops = 1

====
